---------------------------- MODULE Spec2Model ----------------------------
(***************************************************************************)
(* Sharpe ratio calculation engine (backend/sharpe_utils.py).              *)
(*                                                                         *)
(* Numbers.  The engine works on IEEE floats.  The model keeps them exact: *)
(*   - a price is NaN (missing), zero, negative, or a point exp(e) of the  *)
(*     log grid the repository's tests build their series on              *)
(*     (100 * np.exp(np.cumsum(...)));                                     *)
(*   - a return, a rate, a mean or a variance is NaN or a rational <<n,d>>;*)
(*   - a ratio is NaN, +inf, -inf or sgn * sqrt(n/d).                      *)
(* Rounding, overflow and underflow of floats are outside the model.       *)
(***************************************************************************)
EXTENDS Integers, Sequences, FiniteSets, TLC

\* Longest price series of the single-call specification.
MaxLen == 4
\* Largest exponent of a grid price exp(e), e in 0..MaxExp.
MaxExp == 1
\* Longest price series of one symbol in a batch.
MaxBatchLen == 3

\* Default trading_days_per_year.
DefaultTradingDays == 252

-----------------------------------------------------------------------------
(* Exact rationals <<n, d>>, d > 0, in lowest terms. *)

Abs(x) == IF x < 0 THEN -x ELSE x

RECURSIVE GCD(_, _)
GCD(a, b) == IF b = 0 THEN a ELSE GCD(b, a % b)

Q(n, d) ==
    LET g == GCD(Abs(n), Abs(d))
        s == IF d < 0 THEN -1 ELSE 1
    IN  <<(s * n) \div g, (s * d) \div g>>

QZero == <<0, 1>>
QInt(k) == <<k, 1>>
QAdd(a, b) == Q(a[1] * b[2] + b[1] * a[2], a[2] * b[2])
QSub(a, b) == Q(a[1] * b[2] - b[1] * a[2], a[2] * b[2])
\* Common factors are cancelled before multiplying, to keep the integers small.
QMul(a, b) ==
    LET g == GCD(Abs(a[1]), b[2])
        h == GCD(Abs(b[1]), a[2])
    IN  Q((a[1] \div g) * (b[1] \div h), (a[2] \div h) * (b[2] \div g))
\* b # 0
QDiv(a, b) == QMul(a, Q(b[2], b[1]))
QLe(a, b) == a[1] * b[2] <= b[1] * a[2]
QLt(a, b) == a[1] * b[2] < b[1] * a[2]
QSign(a) == IF a[1] > 0 THEN 1 ELSE IF a[1] < 0 THEN -1 ELSE 0
\* int(x): truncation toward zero.
QTrunc(a) == IF a[1] >= 0 THEN a[1] \div a[2] ELSE -((-a[1]) \div a[2])

-----------------------------------------------------------------------------
(* Floats of the engine. *)

NaN == [k |-> "nan", n |-> 0, d |-> 1]
Num(q) == [k |-> "num", n |-> q[1], d |-> q[2]]
IsNaN(x) == x.k = "nan"
Val(x) == <<x.n, x.d>>

\* Prices: NaN, 0.0, a negative price, or exp(e).
PNaN == [k |-> "nan", e |-> 0]
PZero == [k |-> "zero", e |-> 0]
PNeg == [k |-> "neg", e |-> 0]
PExp(e) == [k |-> "exp", e |-> e]
Price == {PNaN, PZero, PNeg} \cup {PExp(e) : e \in 0..MaxExp}

\* Mutant: the check written as ~(price > 0), which NaN fails too.
LeZeroOrNaN(p) == p.k # "exp"

\* price <= 0, elementwise; a comparison with NaN is False.
LeZero(p) == p.k \in {"zero", "neg"}

\* Mutant: the quotient taken the other way round, P[:-1] / P[1:].
DivSwapped(p, q) ==
    IF p.k = "exp" /\ q.k = "exp" THEN PExp(q.e - p.e) ELSE PNaN

\* price_array[1:] / price_array[:-1], elementwise, on the prices that pass
\* the positivity check: exp(a) / exp(b) = exp(a - b); NaN propagates.
Div(p, q) ==
    IF p.k = "exp" /\ q.k = "exp" THEN PExp(p.e - q.e) ELSE PNaN

\* np.log of a quotient: ln(exp(e)) = e; NaN propagates.
Log(x) == IF x.k = "exp" THEN Num(QInt(x.e)) ELSE NaN

-----------------------------------------------------------------------------
(* Outcomes of a call: a returned value or a raised exception. *)

Return(v) == [tag |-> "return", val |-> v]
Raise(type, kind) == [tag |-> "raise", type |-> type, kind |-> kind]
SharpeCalculationError(kind) == Raise("SharpeCalculationError", kind)

-----------------------------------------------------------------------------
(* calculate_daily_returns *)

\* Mutant: every return taken against the first price (cumulative returns).
calculate_daily_returns_cumulative(prices, method) ==
    IF method # "log" THEN SharpeCalculationError("UnsupportedMethod")
    ELSE IF Len(prices) < 2 THEN SharpeCalculationError("InsufficientPoints")
    ELSE IF \E i \in 1..Len(prices) : LeZero(prices[i])
         THEN SharpeCalculationError("NonPositivePrice")
    ELSE Return([i \in 1..(Len(prices) - 1) |-> Log(Div(prices[i + 1], prices[1]))])

\* Mutant: the prices' sign tested before their number.
calculate_daily_returns_sign_first(prices, method) ==
    IF method # "log" THEN SharpeCalculationError("UnsupportedMethod")
    ELSE IF \E i \in 1..Len(prices) : LeZero(prices[i])
         THEN SharpeCalculationError("NonPositivePrice")
    ELSE IF Len(prices) < 2 THEN SharpeCalculationError("InsufficientPoints")
    ELSE Return([i \in 1..(Len(prices) - 1) |-> Log(Div(prices[i + 1], prices[i]))])

calculate_daily_returns(prices, method) ==
    IF method # "log" THEN SharpeCalculationError("UnsupportedMethod")
    ELSE IF Len(prices) < 2 THEN SharpeCalculationError("InsufficientPoints")
    ELSE IF \E i \in 1..Len(prices) : LeZero(prices[i])
         THEN SharpeCalculationError("NonPositivePrice")
    ELSE Return([i \in 1..(Len(prices) - 1) |-> Log(Div(prices[i + 1], prices[i]))])

-----------------------------------------------------------------------------
(* has_sufficient_data *)

\* prices.dropna() / price_array[~np.isnan(price_array)]
DropNaN(xs) == SelectSeq(xs, LAMBDA x : x.k # "nan")

\* Mutant: missing entries counted as observations.
has_sufficient_data_len(prices, min_years, trading_days_per_year) ==
    Len(prices) >= QTrunc(QMul(min_years, QInt(trading_days_per_year)))

\* Mutant: a series without a valid entry is never sufficient.
has_sufficient_data_nonempty(prices, min_years, trading_days_per_year) ==
    /\ Len(DropNaN(prices)) > 0
    /\ Len(DropNaN(prices)) >= QTrunc(QMul(min_years, QInt(trading_days_per_year)))

\* Mutant: the threshold itself is not enough (> for >=).
has_sufficient_data_strict(prices, min_years, trading_days_per_year) ==
    Len(DropNaN(prices)) > QTrunc(QMul(min_years, QInt(trading_days_per_year)))

has_sufficient_data(prices, min_years, trading_days_per_year) ==
    LET valid_prices == DropNaN(prices)
        min_observations == QTrunc(QMul(min_years, QInt(trading_days_per_year)))
    IN  Len(valid_prices) >= min_observations

-----------------------------------------------------------------------------
(* Risk-free rates: a Python value with its type.  v is the number held    *)
(* (for a str, the number its text spells).                                 *)

Rate(t, v) == [t |-> t, v |-> v]
RateLow == <<0, 1>>
RateHigh == <<3, 10>>

\* 0 <= risk_free_rate <= 0.3 on a number; a comparison with NaN is False.
InRange(v) == ~IsNaN(v) /\ QLe(RateLow, Val(v)) /\ QLe(Val(v), RateHigh)

\* isinstance(risk_free_rate, (int, float))
IsIntOrFloat(rate) == rate.t \in {"int", "float"}

\* int and float order against 0 and 0.3; str does not (TypeError).
Comparable(rate) == rate.t \in {"int", "float"}

\* Mutant: the bounds themselves rejected (0 < rate < 0.3).
validate_risk_free_rate_exclusive(risk_free_rate) ==
    IF ~IsIntOrFloat(risk_free_rate) THEN SharpeCalculationError("InvalidRateType")
    ELSE IF ~(/\ ~IsNaN(risk_free_rate.v)
              /\ QLt(RateLow, Val(risk_free_rate.v))
              /\ QLt(Val(risk_free_rate.v), RateHigh))
         THEN SharpeCalculationError("RateOutOfRange")
    ELSE Return("None")

validate_risk_free_rate(risk_free_rate) ==
    IF ~IsIntOrFloat(risk_free_rate) THEN SharpeCalculationError("InvalidRateType")
    ELSE IF ~InRange(risk_free_rate.v) THEN SharpeCalculationError("RateOutOfRange")
    ELSE Return("None")

-----------------------------------------------------------------------------
(* Statistics of a return series. *)

RECURSIVE QSum(_)
QSum(xs) == IF xs = <<>> THEN QZero ELSE QAdd(Val(Head(xs)), QSum(Tail(xs)))

\* np.mean(x), x non-empty
Mean(xs) == QDiv(QSum(xs), QInt(Len(xs)))

\* Mutant: the daily rate added to the returns.
ShiftPlus(xs, c) == [i \in 1..Len(xs) |-> Num(QAdd(Val(xs[i]), c))]

\* x - c, elementwise
Shift(xs, c) == [i \in 1..Len(xs) |-> Num(QSub(Val(xs[i]), c))]

\* (x - mean(x)) ** 2, elementwise
SqDev(xs) ==
    LET m == Mean(xs)
    IN  [i \in 1..Len(xs) |-> Num(QMul(QSub(Val(xs[i]), m), QSub(Val(xs[i]), m)))]

\* Degrees of freedom removed by np.std(..., ddof=1).
Ddof == 1

\* Mutant: the population variance (np.std's default ddof=0).
VarPopulation(xs) == Num(QDiv(QSum(SqDev(xs)), QInt(Len(xs))))

\* np.var(x, ddof=Ddof): sum of squared deviations over max(n - ddof, 0);
\* 0.0 / 0 is NaN (a RuntimeWarning, no exception).
Var(xs) ==
    LET rcount == IF Len(xs) - Ddof > 0 THEN Len(xs) - Ddof ELSE 0
    IN  IF rcount = 0 THEN NaN ELSE Num(QDiv(QSum(SqDev(xs)), QInt(rcount)))

\* Ratios: NaN, +inf, -inf, or s * sqrt(n / d) with s the sign.
RatioNaN == [k |-> "nan", s |-> 0, n |-> 0, d |-> 1]
RatioInf == [k |-> "inf", s |-> 1, n |-> 0, d |-> 1]
RatioNegInf == [k |-> "-inf", s |-> -1, n |-> 0, d |-> 1]
RatioFin(s, q) == [k |-> "fin", s |-> s, n |-> q[1], d |-> q[2]]

\* (mean_excess / volatility) * sqrt(trading_days_per_year), volatility the
\* square root of var # 0: sign(mean) * sqrt(mean^2 / var * T); NaN if var is NaN.
Annualized(mean_excess, var, trading_days_per_year) ==
    IF IsNaN(var) THEN RatioNaN
    ELSE RatioFin(QSign(mean_excess),
                  QMul(QDiv(QMul(mean_excess, mean_excess), Val(var)),
                       QInt(trading_days_per_year)))

\* The zero-volatility branch.
ZeroVolatility(mean_excess) ==
    IF QSign(mean_excess) > 0 THEN RatioInf
    ELSE IF QSign(mean_excess) < 0 THEN RatioNegInf
    ELSE RatioNaN

-----------------------------------------------------------------------------
(* calculate_sharpe_ratio *)

\* Mutant: no valid return left is reported as an error.
SharpeTryEmptyRaises(prices, risk_free_rate, trading_days_per_year, is_partial_data) ==
    LET dr == calculate_daily_returns(prices, "log")
    IN  IF dr.tag = "raise" THEN dr
        ELSE
        LET valid_returns == DropNaN(dr.val)
        IN  IF Len(valid_returns) = 0 THEN SharpeCalculationError("CalculationFailed")
            ELSE IF trading_days_per_year = 0
                 THEN Raise("ZeroDivisionError", "float division by zero")
            ELSE
            LET daily_rf_rate == QDiv(Val(risk_free_rate.v), QInt(trading_days_per_year))
                excess_returns == Shift(valid_returns, daily_rf_rate)
                mean_excess_return == Mean(excess_returns)
                variance == Var(valid_returns)
            IN  IF ~IsNaN(variance) /\ QSign(Val(variance)) = 0
                THEN Return(<<ZeroVolatility(mean_excess_return), is_partial_data>>)
                ELSE Return(<<Annualized(mean_excess_return, variance,
                                         trading_days_per_year), is_partial_data>>)

\* The body of the try block.
SharpeTry(prices, risk_free_rate, trading_days_per_year, is_partial_data) ==
    LET dr == calculate_daily_returns(prices, "log")
    IN  IF dr.tag = "raise" THEN dr
        ELSE
        LET valid_returns == DropNaN(dr.val)
        IN  IF Len(valid_returns) = 0 THEN Return(<<RatioNaN, is_partial_data>>)
            ELSE IF trading_days_per_year = 0
                 THEN Raise("ZeroDivisionError", "float division by zero")
            ELSE
            LET daily_rf_rate == QDiv(Val(risk_free_rate.v), QInt(trading_days_per_year))
                excess_returns == Shift(valid_returns, daily_rf_rate)
                mean_excess_return == Mean(excess_returns)
                variance == Var(valid_returns)
            IN  IF ~IsNaN(variance) /\ QSign(Val(variance)) = 0
                THEN Return(<<ZeroVolatility(mean_excess_return), is_partial_data>>)
                ELSE Return(<<Annualized(mean_excess_return, variance,
                                         trading_days_per_year), is_partial_data>>)

\* except SharpeCalculationError: raise / except Exception: wrap.
SharpeExcept(out) ==
    IF out.tag = "raise" /\ out.type # "SharpeCalculationError"
    THEN SharpeCalculationError("CalculationFailed")
    ELSE out

calculate_sharpe_ratio(prices, risk_free_rate, min_years, trading_days_per_year) ==
    IF ~Comparable(risk_free_rate) THEN Raise("TypeError", "'<=' not supported")
    ELSE IF ~InRange(risk_free_rate.v) THEN SharpeCalculationError("RateOutOfRange")
    ELSE LET is_partial_data ==
                 ~has_sufficient_data(prices, min_years, trading_days_per_year)
         IN  SharpeExcept(SharpeTry(prices, risk_free_rate, trading_days_per_year,
                                    is_partial_data))

-----------------------------------------------------------------------------
(* sharpe_from_returns *)

\* Mutant: the population standard deviation (ddof left at its default).
sharpe_from_returns_population(returns, risk_free_rate, trading_days_per_year) ==
    LET v == validate_risk_free_rate(risk_free_rate)
        valid_returns == DropNaN(returns)
    IN  IF v.tag = "raise" THEN v
        ELSE IF Len(valid_returns) = 0 THEN Return(RatioNaN)
        ELSE IF trading_days_per_year = 0
             THEN Raise("ZeroDivisionError", "float division by zero")
        ELSE
        LET daily_rf_rate == QDiv(Val(risk_free_rate.v), QInt(trading_days_per_year))
            excess_returns == Shift(valid_returns, daily_rf_rate)
            mean_excess == Mean(excess_returns)
            variance == VarPopulation(valid_returns)
        IN  IF ~IsNaN(variance) /\ QSign(Val(variance)) = 0
            THEN Return(ZeroVolatility(mean_excess))
            ELSE Return(Annualized(mean_excess, variance, trading_days_per_year))

sharpe_from_returns(returns, risk_free_rate, trading_days_per_year) ==
    LET v == validate_risk_free_rate(risk_free_rate)
        valid_returns == DropNaN(returns)
    IN  IF v.tag = "raise" THEN v
        ELSE IF Len(valid_returns) = 0 THEN Return(RatioNaN)
        ELSE IF trading_days_per_year = 0
             THEN Raise("ZeroDivisionError", "float division by zero")
        ELSE
        LET daily_rf_rate == QDiv(Val(risk_free_rate.v), QInt(trading_days_per_year))
            excess_returns == Shift(valid_returns, daily_rf_rate)
            mean_excess == Mean(excess_returns)
            variance == Var(valid_returns)
        IN  IF ~IsNaN(variance) /\ QSign(Val(variance)) = 0
            THEN Return(ZeroVolatility(mean_excess))
            ELSE Return(Annualized(mean_excess, variance, trading_days_per_year))

-----------------------------------------------------------------------------
(* batch_calculate_sharpe_ratios *)

\* Mutant: a failed calculation stored as (nan, False).
BatchPairNotPartial(prices, risk_free_rate, min_years) ==
    LET out == calculate_sharpe_ratio(prices, risk_free_rate, min_years,
                                      DefaultTradingDays)
    IN  IF out.tag = "return" THEN out.val ELSE <<RatioNaN, FALSE>>

\* What one pass of the loop body stores for a ticker: the pair returned, or
\* (nan, True) when calculate_sharpe_ratio raises SharpeCalculationError.
BatchPair(prices, risk_free_rate, min_years) ==
    LET out == calculate_sharpe_ratio(prices, risk_free_rate, min_years,
                                      DefaultTradingDays)
    IN  IF out.tag = "return" THEN out.val ELSE <<RatioNaN, TRUE>>

\* An exception of the call that the except clause does not catch.
BatchEscape(prices, risk_free_rate, min_years) ==
    LET out == calculate_sharpe_ratio(prices, risk_free_rate, min_years,
                                      DefaultTradingDays)
    IN  out.tag = "raise" /\ out.type # "SharpeCalculationError"

\* Mutant: results rebound to a new dict on every pass.
BatchRecordRebind(results, ticker, prices, risk_free_rate, min_years) ==
    [t \in {ticker} |-> BatchPair(prices, risk_free_rate, min_years)]

\* Mutant: the except clause passes, storing nothing for a failed ticker.
BatchRecordSkipFailed(results, ticker, prices, risk_free_rate, min_years) ==
    IF calculate_sharpe_ratio(prices, risk_free_rate, min_years,
                              DefaultTradingDays).tag = "raise"
    THEN results
    ELSE [t \in (DOMAIN results) \cup {ticker} |->
            IF t = ticker THEN BatchPair(prices, risk_free_rate, min_years)
            ELSE results[t]]

\* results[ticker] = ...
BatchRecord(results, ticker, prices, risk_free_rate, min_years) ==
    [t \in (DOMAIN results) \cup {ticker} |->
        IF t = ticker THEN BatchPair(prices, risk_free_rate, min_years)
        ELSE results[t]]

\* The whole loop over the items of the dict, in their order.
RECURSIVE BatchLoop(_, _, _, _, _)
BatchLoop(results, items, price_data, risk_free_rate, min_years) ==
    IF items = <<>> THEN results
    ELSE BatchLoop(BatchRecord(results, Head(items), price_data[Head(items)],
                               risk_free_rate, min_years),
                   Tail(items), price_data, risk_free_rate, min_years)

-----------------------------------------------------------------------------
VARIABLES
    prices,          \* argument of a single call
    call,            \* the single call made and its outcome
    price_data,      \* batch argument: ticker -> price series
    items,           \* iteration order of price_data.items()
    risk_free_rate,  \* batch argument
    min_years,       \* batch argument
    results,         \* the dict the batch builds
    todo,            \* items the loop has not reached yet
    inflight,        \* tickers handed to a worker and not yet recorded
    pc,              \* idle | validate | loop | raised | returned
    error,           \* the exception a raised batch ends with
    max_retries,     \* YFinanceAdapter.max_retries
    api_calls,       \* YFinanceAdapter.api_calls
    failed_calls,    \* YFinanceAdapter.failed_calls
    attempt_number,  \* attempts the retry decorator has started for the call
    hist_data,       \* what the provider gave the last attempt
    fetch_pc,        \* idle | attempt | wait | returned | raised
    fetch_out,       \* what the caller of _fetch_ticker_data receives
    cache_manager,   \* YFinanceAdapter.cache_manager: a CacheManager or None
    hash,            \* the process's hash() on tuples of tickers
    now,             \* datetime.now(), in hours
    get_calls,       \* calls of CacheManager.get made so far
    ops              \* calls made on the cache, the adapter or the service

vars == <<prices, call, price_data, items, risk_free_rate, min_years, results,
          todo, inflight, pc, error, max_retries, api_calls, failed_calls,
          attempt_number, hist_data, fetch_pc, fetch_out, cache_manager, hash,
          now, get_calls, ops>>

service_vars == <<cache_manager, hash, now, get_calls, ops>>

adapter_vars == <<max_retries, api_calls, failed_calls, attempt_number,
                  hist_data, fetch_pc, fetch_out>>

batch_vars == <<price_data, items, risk_free_rate, min_years, results, todo,
                inflight, pc, error>>

RECURSIVE SeqsUpTo(_, _)
SeqsUpTo(S, n) ==
    IF n = 0 THEN {<<>>}
    ELSE LET shorter == SeqsUpTo(S, n - 1)
         IN  shorter \cup {Append(s, x) : s \in {t \in shorter : Len(t) = n - 1}, x \in S}

PriceSeries == SeqsUpTo(Price, MaxLen)
Methods == {"log", "arithmetic"}

\* "0.05" (a str), -0.01, 0.0, 0.05, 0.3, 0.35, float('nan')
Rates ==
    {Rate("str", Num(<<1, 20>>)), Rate("float", Num(<<-1, 100>>)),
     Rate("float", Num(<<0, 1>>)), Rate("float", Num(<<1, 20>>)),
     Rate("float", Num(<<3, 10>>)), Rate("float", Num(<<7, 20>>)),
     Rate("float", NaN)}

\* min_years: 0.0125 (3 observations at 252 days a year) and the default 3.0
MinYears == {<<1, 80>>, <<3, 1>>}
TradingDays == {0, 1, DefaultTradingDays}

NoCall == [fn |-> "none"]
NoError == Return("None")
EmptyDict == <<>>

\* The batch is not running.
BatchIdle ==
    /\ price_data = EmptyDict
    /\ items = <<>>
    /\ risk_free_rate = Rate("float", Num(<<3, 200>>))
    /\ min_years = <<3, 1>>
    /\ results = EmptyDict
    /\ todo = <<>>
    /\ inflight = {}
    /\ pc = "idle"
    /\ error = NoError

\* max_retries of YFinanceAdapter.__init__ when not given.
DefaultMaxRetries == 5

\* An adapter as constructed, no fetch running.
AdapterNew ==
    /\ api_calls = 0
    /\ failed_calls = 0
    /\ attempt_number = 0
    /\ hist_data = "unset"
    /\ fetch_pc = "idle"
    /\ fetch_out = NoCall

AdapterIdle == max_retries = DefaultMaxRetries /\ AdapterNew

\* No cache manager, no call made, the clock at its origin.
ServiceIdle ==
    /\ cache_manager = [k |-> "None"]
    /\ hash = EmptyDict
    /\ now = 0
    /\ get_calls = 0
    /\ ops = 0

Init ==
    /\ prices \in PriceSeries
    /\ call = NoCall
    /\ BatchIdle
    /\ AdapterIdle
    /\ ServiceIdle

CallDailyReturns ==
    /\ call = NoCall
    /\ pc = "idle"
    /\ \E method \in Methods :
         call' = [fn |-> "calculate_daily_returns", method |-> method,
                  out |-> calculate_daily_returns(prices, method)]
    /\ UNCHANGED <<prices, batch_vars, adapter_vars, service_vars>>

CallSharpeRatio ==
    /\ call = NoCall
    /\ pc = "idle"
    /\ \E rate \in Rates, my \in MinYears, td \in TradingDays :
         call' = [fn |-> "calculate_sharpe_ratio", risk_free_rate |-> rate,
                  min_years |-> my, trading_days_per_year |-> td,
                  out |-> calculate_sharpe_ratio(prices, rate, my, td)]
    /\ UNCHANGED <<prices, batch_vars, adapter_vars, service_vars>>

\* min_years given to has_sufficient_data alone: also 0.0 and -0.5
SufficiencyMinYears == MinYears \cup {<<0, 1>>, <<-1, 2>>}

CallHasSufficientData ==
    /\ call = NoCall
    /\ pc = "idle"
    /\ \E my \in SufficiencyMinYears, td \in TradingDays :
         call' = [fn |-> "has_sufficient_data", min_years |-> my,
                  trading_days_per_year |-> td,
                  out |-> Return(has_sufficient_data(prices, my, td))]
    /\ UNCHANGED <<prices, batch_vars, adapter_vars, service_vars>>

\* Rates given to the validator alone: also None, the ints 0 and 1, and the
\* floats -0.0001 and 0.3001
ValidatorRates ==
    Rates \cup {Rate("NoneType", Num(<<0, 1>>)), Rate("int", Num(<<0, 1>>)),
                Rate("int", Num(<<1, 1>>)), Rate("float", Num(<<-1, 10000>>)),
                Rate("float", Num(<<3001, 10000>>))}

CallValidateRate ==
    /\ call = NoCall
    /\ pc = "idle"
    /\ \E rate \in ValidatorRates :
         call' = [fn |-> "validate_risk_free_rate", risk_free_rate |-> rate,
                  out |-> validate_risk_free_rate(rate)]
    /\ UNCHANGED <<prices, batch_vars, adapter_vars, service_vars>>

\* sharpe_from_returns on the returns calculate_daily_returns gives for prices.
CallSharpeFromReturns ==
    /\ call = NoCall
    /\ pc = "idle"
    /\ calculate_daily_returns(prices, "log").tag = "return"
    /\ \E rate \in Rates, td \in TradingDays :
         LET returns == calculate_daily_returns(prices, "log").val
         IN  call' = [fn |-> "sharpe_from_returns", returns |-> returns,
                      risk_free_rate |-> rate, trading_days_per_year |-> td,
                      out |-> sharpe_from_returns(returns, rate, td)]
    /\ UNCHANGED <<prices, batch_vars, adapter_vars, service_vars>>

Next ==
    \/ CallDailyReturns
    \/ CallSharpeRatio
    \/ CallHasSufficientData
    \/ CallValidateRate
    \/ CallSharpeFromReturns

Spec == Init /\ [][Next]_vars

-----------------------------------------------------------------------------
(* The batch, as the sequential loop of the code. *)

\* The tickers, in the order a dict built from them iterates.  Every series
\* may sit at every position, so one order of the names covers them all.
Tickers == <<"AAPL", "MSFT", "BAD">>
Symbols == {Tickers[i] : i \in DOMAIN Tickers}

\* Series of a batch: the prefixes, up to MaxBatchLen, of a few patterns.
BatchPatterns ==
    {<<PExp(0), PExp(1), PExp(1), PExp(0), PExp(1)>>,
     <<PExp(0), PExp(0), PExp(0), PNaN, PExp(0)>>,
     <<PExp(1), PNaN, PNeg, PExp(0), PExp(1)>>}
BatchSeries ==
    {SubSeq(b, 1, n) : b \in BatchPatterns, n \in 0..MaxBatchLen}

\* "0.05" (a str), -0.01, 0.0, 0.05, 0.35, float('nan')
BatchRates ==
    {Rate("str", Num(<<1, 20>>)), Rate("float", Num(<<-1, 100>>)),
     Rate("float", Num(<<0, 1>>)), Rate("float", Num(<<1, 20>>)),
     Rate("float", Num(<<7, 20>>)), Rate("float", NaN)}
\* min_years: 0.01 (2 observations) and the default 3.0 (756 observations)
BatchMinYears == {<<1, 100>>, <<3, 1>>}

\* list(price_data.items()) of a dict with the keys S.
ItemsOf(S) == SelectSeq(Tickers, LAMBDA t : t \in S)

BatchInit ==
    /\ prices = <<>>
    /\ call = NoCall
    /\ \E S \in SUBSET Symbols :
         /\ price_data \in [S -> BatchSeries]
         /\ items = ItemsOf(S)
    /\ risk_free_rate \in BatchRates
    /\ min_years \in BatchMinYears
    /\ results = EmptyDict
    /\ todo = <<>>
    /\ inflight = {}
    /\ pc = "validate"
    /\ error = NoError
    /\ AdapterIdle
    /\ ServiceIdle

\* Mutant: no up-front validation; the rate is left to the per-symbol calls.
BatchValidateNone ==
    /\ pc = "validate"
    /\ pc' = "loop"
    /\ results' = EmptyDict
    /\ todo' = items
    /\ UNCHANGED <<adapter_vars, service_vars, prices, call, price_data, items,
                   risk_free_rate, min_years, inflight, error>>

\* validate_risk_free_rate(risk_free_rate); results = {}
BatchValidate ==
    /\ pc = "validate"
    /\ LET v == validate_risk_free_rate(risk_free_rate)
       IN  IF v.tag = "raise"
           THEN /\ pc' = "raised"
                /\ error' = v
                /\ UNCHANGED <<results, todo>>
           ELSE /\ pc' = "loop"
                /\ results' = EmptyDict
                /\ todo' = items
                /\ UNCHANGED error
    /\ UNCHANGED <<adapter_vars, service_vars, prices, call, price_data, items,
                   risk_free_rate, min_years, inflight>>

\* One pass of the for loop.
BatchIterate ==
    /\ pc = "loop"
    /\ todo # <<>>
    /\ LET ticker == Head(todo)
       IN  IF BatchEscape(price_data[ticker], risk_free_rate, min_years)
           THEN /\ pc' = "raised"
                /\ error' = calculate_sharpe_ratio(price_data[ticker], risk_free_rate,
                                                   min_years, DefaultTradingDays)
                /\ UNCHANGED <<results, todo>>
           ELSE /\ results' = BatchRecord(results, ticker, price_data[ticker],
                                          risk_free_rate, min_years)
                /\ todo' = Tail(todo)
                /\ UNCHANGED <<pc, error>>
    /\ UNCHANGED <<adapter_vars, service_vars, prices, call, price_data, items,
                   risk_free_rate, min_years, inflight>>

\* return results
BatchReturn ==
    /\ pc = "loop"
    /\ todo = <<>>
    /\ inflight = {}
    /\ pc' = "returned"
    /\ UNCHANGED <<adapter_vars, service_vars, prices, call, price_data, items,
                   risk_free_rate, min_years, results, todo, inflight, error>>

BatchNext == BatchValidate \/ BatchIterate \/ BatchReturn

BatchSpec == BatchInit /\ [][BatchNext]_vars

-----------------------------------------------------------------------------
(* The batch with the loop body run by a pool of workers: the items are    *)
(* submitted in the dict's order and complete in any order.                *)

ParSubmit ==
    /\ pc = "loop"
    /\ todo # <<>>
    /\ inflight' = inflight \cup {Head(todo)}
    /\ todo' = Tail(todo)
    /\ UNCHANGED <<adapter_vars, service_vars, prices, call, price_data, items,
                   risk_free_rate, min_years, results, pc, error>>

ParComplete ==
    /\ pc = "loop"
    /\ \E ticker \in inflight :
         /\ ~BatchEscape(price_data[ticker], risk_free_rate, min_years)
         /\ results' = BatchRecord(results, ticker, price_data[ticker],
                                   risk_free_rate, min_years)
         /\ inflight' = inflight \ {ticker}
    /\ UNCHANGED <<adapter_vars, service_vars, prices, call, price_data, items,
                   risk_free_rate, min_years, todo, pc, error>>

ParNext == BatchValidate \/ ParSubmit \/ ParComplete \/ BatchReturn

ParSpec == BatchInit /\ [][ParNext]_vars

-----------------------------------------------------------------------------
(* YFinanceAdapter._fetch_ticker_data under its retry decorator.  The wait  *)
(* between two attempts (1, 2, 4, 8 seconds) changes no state.              *)

\* Largest max_retries given to the constructor.
MaxRetriesArg == 8

\* stop=stop_after_attempt(5) of the decorator.
StopAfterAttempt == 5

\* What yf.Ticker(ticker).history(...) does in one attempt.
ProviderOutcomes == {"raise", "empty", "data"}

\* stop_after_attempt: no further attempt once this many have been made.
stop_after_attempt(attempt) == attempt >= StopAfterAttempt

\* The error the function body raises in its except clause.
YFinanceAdapterError == Raise("YFinanceAdapterError", "Failed to fetch")

\* What the decorator (reraise not set) raises once it stops retrying.
RetryError == Raise("RetryError", "YFinanceAdapterError")

FetchInit ==
    /\ prices = <<>>
    /\ call = NoCall
    /\ BatchIdle
    /\ max_retries \in 1..MaxRetriesArg
    /\ AdapterNew
    /\ ServiceIdle

\* A caller (fetch_prices, a worker of fetch_prices_async, a test) calls
\* _fetch_ticker_data: the decorator starts the first attempt.
FetchCall ==
    /\ fetch_pc = "idle"
    /\ fetch_pc' = "attempt"
    /\ attempt_number' = 1
    /\ UNCHANGED <<service_vars, prices, call, batch_vars, max_retries, api_calls,
                   failed_calls, hist_data, fetch_out>>

\* One run of the function body, and the decorator's decision on its outcome.
FetchAttempt ==
    /\ fetch_pc = "attempt"
    /\ api_calls' = api_calls + 1
    /\ \E outcome \in ProviderOutcomes :
         /\ hist_data' = outcome
         /\ IF outcome = "empty"
            THEN /\ fetch_out' = Return("None")
                 /\ fetch_pc' = "returned"
                 /\ UNCHANGED failed_calls
            ELSE IF outcome = "data"
            THEN /\ fetch_out' = Return("DataFrame")
                 /\ fetch_pc' = "returned"
                 /\ UNCHANGED failed_calls
            ELSE /\ failed_calls' = failed_calls + 1
                 /\ IF stop_after_attempt(attempt_number)
                    THEN /\ fetch_out' = RetryError
                         /\ fetch_pc' = "raised"
                    ELSE /\ fetch_pc' = "wait"
                         /\ UNCHANGED fetch_out
    /\ UNCHANGED <<service_vars, prices, call, batch_vars, max_retries,
                   attempt_number>>

\* The wait is over: the decorator starts the next attempt.
FetchRetry ==
    /\ fetch_pc = "wait"
    /\ fetch_pc' = "attempt"
    /\ attempt_number' = attempt_number + 1
    /\ UNCHANGED <<service_vars, prices, call, batch_vars, max_retries, api_calls,
                   failed_calls, hist_data, fetch_out>>

FetchNext == FetchCall \/ FetchAttempt \/ FetchRetry

FetchSpec == FetchInit /\ [][FetchNext]_vars

-----------------------------------------------------------------------------
(* CacheManager.  A table is the tickers whose rows it holds, in row order, *)
(* with the hour it was built.  A cache file holds the table written to it: *)
(* to_parquet and read_parquet of a sound file neither fail nor change it.  *)
(* Optional arguments are sequences: <<>> is None and <<n>> is n.           *)

\* Calls made on the cache, the adapter or the service in one run.
MaxOps == 2

\* default_ttl_hours of the manager
DefaultTtlHours == 2

\* Hours the clock runs over: until an entry written at the first call has
\* outlived the default TTL.
MaxTime == DefaultTtlHours

None == <<>>
Some(x) == <<x>>

\* A DataFrame, and the None that get returns in its place.
Table(rows, stamp) == [k |-> "DataFrame", rows |-> rows, stamp |-> stamp]
NoTable == [k |-> "None"]

\* The strings used as tickers, in the order sorted() puts them.
TickerOrder == <<" ", "AAPL", "MSFT", "aapl">>
Rank(ticker) == CHOOSE i \in DOMAIN TickerOrder : TickerOrder[i] = ticker

\* tuple(sorted(tickers))
sorted(tickers) == SortSeq(tickers, LAMBDA a, b : Rank(a) < Rank(b))

\* f restricted to S
Restrict(f, S) == [x \in S |-> f[x]]

\* CacheManager.__init__ on an empty cache directory.
CacheManager(default_ttl_hours) ==
    [k |-> "CacheManager", files |-> EmptyDict, metadata |-> EmptyDict,
     cache_hits |-> 0, cache_misses |-> 0,
     default_ttl_hours |-> default_ttl_hours]

\* f"{hash(tuple(sorted(tickers)))}_{period}": the hash has no underscore, so
\* the key is the pair of the hash and the period.
_get_cache_key(h, tickers, period) == <<h[sorted(tickers)], period>>

\* ttl_hours or self.default_ttl_hours: None and 0 are both falsy.
TtlOrDefault(self, ttl_hours) ==
    IF ttl_hours = None \/ ttl_hours = Some(0) THEN self.default_ttl_hours
    ELSE ttl_hours[1]

_is_cache_valid(self, cache_key, ttl_hours, t) ==
    LET ttl == TtlOrDefault(self, ttl_hours)
    IN  IF cache_key \notin DOMAIN self.metadata THEN FALSE
        ELSE t < self.metadata[cache_key].timestamp + ttl

_remove_cache_entry(self, cache_key) ==
    [self EXCEPT !.files = Restrict(@, DOMAIN @ \ {cache_key}),
                 !.metadata = Restrict(@, DOMAIN @ \ {cache_key})]

\* Mutant: an expired entry counted as a hit and as a miss.
get_counting_twice(self, h, tickers, period, ttl_hours, t) ==
    LET cache_key == _get_cache_key(h, tickers, period)
    IN  IF cache_key \notin DOMAIN self.files
        THEN [self |-> [self EXCEPT !.cache_misses = @ + 1], out |-> NoTable]
        ELSE IF ~_is_cache_valid(self, cache_key, ttl_hours, t)
        THEN [self |-> _remove_cache_entry(
                           [self EXCEPT !.cache_misses = @ + 1,
                                        !.cache_hits = @ + 1], cache_key),
              out |-> NoTable]
        ELSE [self |-> [self EXCEPT !.cache_hits = @ + 1],
              out |-> self.files[cache_key]]

\* CacheManager.get: the manager after the call and the value returned.
get(self, h, tickers, period, ttl_hours, t) ==
    LET cache_key == _get_cache_key(h, tickers, period)
    IN  IF cache_key \notin DOMAIN self.files
        THEN [self |-> [self EXCEPT !.cache_misses = @ + 1], out |-> NoTable]
        ELSE IF ~_is_cache_valid(self, cache_key, ttl_hours, t)
        THEN [self |-> _remove_cache_entry([self EXCEPT !.cache_misses = @ + 1],
                                           cache_key),
              out |-> NoTable]
        ELSE [self |-> [self EXCEPT !.cache_hits = @ + 1],
              out |-> self.files[cache_key]]

\* Mutant: nothing stored.
set_nothing(self, h, tickers, period, data, t) == self

\* CacheManager.set: the manager after the call.
set(self, h, tickers, period, data, t) ==
    LET cache_key == _get_cache_key(h, tickers, period)
        entry == [timestamp |-> t, tickers |-> tickers, period |-> period]
    IN  [self EXCEPT
           !.files = [x \in DOMAIN @ \cup {cache_key} |->
                        IF x = cache_key THEN data ELSE @[x]],
           !.metadata = [x \in DOMAIN @ \cup {cache_key} |->
                           IF x = cache_key THEN entry ELSE @[x]]]

RECURSIVE RemoveAll(_, _)
\* for key in expired_keys: self._remove_cache_entry(key)
RemoveAll(self, expired_keys) ==
    IF expired_keys = {} THEN self
    ELSE LET key == CHOOSE x \in expired_keys : TRUE
         IN  RemoveAll(_remove_cache_entry(self, key), expired_keys \ {key})

\* CacheManager.cleanup_expired: the manager after the call.
cleanup_expired(self, ttl_hours, t) ==
    LET ttl == Some(TtlOrDefault(self, ttl_hours))
        expired_keys == {key \in DOMAIN self.metadata :
                           ~_is_cache_valid(self, key, ttl, t)}
    IN  RemoveAll(self, expired_keys)

-----------------------------------------------------------------------------
(* One CacheManager under get, set and cleanup_expired calls, hours apart.  *)

\* The tuples hash() is applied to.
HashedTuples == <<<<"AAPL">>, <<"AAPL", "MSFT">>, <<"aapl">>>>

\* hash() on these tuples, as the interpreter's hash seed may make it.  Only
\* the equality of two hashes shows in a key, so one function stands for all
\* that make the same tuples collide: the hashes are numbered in the order
\* of HashedTuples.
HashFunctions ==
    {h \in [{HashedTuples[i] : i \in DOMAIN HashedTuples} ->
               0..(Len(HashedTuples) - 1)] :
        \A i \in DOMAIN HashedTuples :
            \/ h[HashedTuples[i]] = 0
            \/ \E j \in 1..(i - 1) :
                  h[HashedTuples[i]] <= h[HashedTuples[j]] + 1}

\* ttl_hours arguments: None, 0 and 1 hour
TtlArgs == {None, Some(0), Some(1)}
Periods == {"1y", "5y"}
CacheTickerLists == {<<"AAPL", "MSFT">>, <<"MSFT", "AAPL">>, <<"AAPL">>}

CacheInit ==
    /\ prices = <<>>
    /\ call = NoCall
    /\ BatchIdle
    /\ AdapterIdle
    /\ cache_manager = CacheManager(DefaultTtlHours)
    /\ hash \in HashFunctions
    /\ now = 0
    /\ get_calls = 0
    /\ ops = 0

CacheGet ==
    /\ ops < MaxOps
    /\ \E tickers \in CacheTickerLists, period \in Periods, ttl_hours \in TtlArgs :
         LET r == get(cache_manager, hash, tickers, period, ttl_hours, now)
         IN  /\ cache_manager' = r.self
             /\ call' = [fn |-> "get", tickers |-> tickers, period |-> period,
                         ttl_hours |-> ttl_hours, time |-> now,
                         before |-> cache_manager, out |-> r.out]
    /\ get_calls' = get_calls + 1
    /\ ops' = ops + 1
    /\ UNCHANGED <<prices, batch_vars, adapter_vars, hash, now>>

CacheSet ==
    /\ ops < MaxOps
    /\ \E tickers \in CacheTickerLists, period \in Periods :
         LET data == Table(tickers, now)
         IN  /\ cache_manager' = set(cache_manager, hash, tickers, period, data, now)
             /\ call' = [fn |-> "set", tickers |-> tickers, period |-> period,
                         data |-> data, time |-> now, before |-> cache_manager]
    /\ ops' = ops + 1
    /\ UNCHANGED <<prices, batch_vars, adapter_vars, hash, now, get_calls>>

CacheCleanup ==
    /\ ops < MaxOps
    /\ \E ttl_hours \in TtlArgs :
         /\ cache_manager' = cleanup_expired(cache_manager, ttl_hours, now)
         /\ call' = [fn |-> "cleanup_expired", ttl_hours |-> ttl_hours,
                     time |-> now, before |-> cache_manager]
    /\ ops' = ops + 1
    /\ UNCHANGED <<prices, batch_vars, adapter_vars, hash, now, get_calls>>

\* An hour passes between two calls.
Tick ==
    /\ 0 < ops /\ ops < MaxOps
    /\ now < MaxTime
    /\ now' = now + 1
    /\ UNCHANGED <<prices, call, batch_vars, adapter_vars, cache_manager, hash,
                   get_calls, ops>>

CacheNext == CacheGet \/ CacheSet \/ CacheCleanup \/ Tick

CacheSpec == CacheInit /\ [][CacheNext]_vars

-----------------------------------------------------------------------------
(* YFinanceAdapter.fetch_prices and DataService.get_stock_data, called one  *)
(* after the other on one adapter, hours apart.                             *)

\* What the provider does for one ticker, attempt by attempt; the last
\* entry repeats.
ProviderScripts == {<<"data">>, <<"empty">>, <<"raise">>}

\* The adapter's fields that the calls read and write.
Adapter(cm, calls, failed) ==
    [cache_manager |-> cm, api_calls |-> calls, failed_calls |-> failed]

\* if self.cache_manager
CacheEnabled(self) == self.cache_manager.k = "CacheManager"

RECURSIVE _fetch_ticker_data(_, _, _)
\* _fetch_ticker_data under its retry decorator, from the given attempt on:
\* the adapter after the call and what the call returns or raises.
_fetch_ticker_data(self, script, attempt) ==
    LET outcome == IF attempt <= Len(script) THEN script[attempt]
                   ELSE script[Len(script)]
        counted == [self EXCEPT !.api_calls = @ + 1]
        failed == [counted EXCEPT !.failed_calls = @ + 1]
    IN  CASE outcome = "data" -> [self |-> counted, out |-> Return("data")]
          [] outcome = "empty" -> [self |-> counted, out |-> Return("None")]
          [] outcome = "raise" ->
                IF stop_after_attempt(attempt)
                THEN [self |-> failed, out |-> RetryError]
                ELSE _fetch_ticker_data(failed, script, attempt + 1)

\* ticker.strip().upper() on the strings used as tickers
StripUpper(ticker) ==
    CASE ticker = "aapl" -> "AAPL"
      [] ticker = " " -> ""
      [] OTHER -> ticker

RECURSIVE clean(_)
\* [ticker.strip().upper() for ticker in tickers if ticker.strip()]
clean(tickers) ==
    IF tickers = <<>> THEN <<>>
    ELSE IF StripUpper(Head(tickers)) = "" THEN clean(Tail(tickers))
    ELSE <<StripUpper(Head(tickers))>> \o clean(Tail(tickers))

RECURSIVE FetchLoopStopAtFailure(_, _, _, _)
\* Mutant: the loop abandoned at the first ticker that fails.
FetchLoopStopAtFailure(self, clean_tickers, provider, successful_data) ==
    IF clean_tickers = <<>>
    THEN [self |-> self, successful_data |-> successful_data]
    ELSE LET ticker == Head(clean_tickers)
             r == _fetch_ticker_data(self, provider[ticker], 1)
         IN  IF r.out = Return("data")
             THEN FetchLoopStopAtFailure(r.self, Tail(clean_tickers), provider,
                                         Append(successful_data, ticker))
             ELSE [self |-> r.self, successful_data |-> <<>>]

RECURSIVE FetchLoop(_, _, _, _)
\* The loop over clean_tickers: the adapter after it and the tickers whose
\* data was appended to successful_data.
FetchLoop(self, clean_tickers, provider, successful_data) ==
    IF clean_tickers = <<>>
    THEN [self |-> self, successful_data |-> successful_data]
    ELSE LET ticker == Head(clean_tickers)
             r == _fetch_ticker_data(self, provider[ticker], 1)
         IN  FetchLoop(r.self, Tail(clean_tickers), provider,
                       IF r.out = Return("data")
                       THEN Append(successful_data, ticker)
                       ELSE successful_data)

ValueError(kind) == Raise("ValueError", kind)

\* Mutant: the table cached under the key of the tickers that have rows.
fetch_prices_keyed_by_rows(self, h, tickers, period, ttl_hours, t, provider) ==
    LET clean_tickers == clean(tickers)
        cached == IF CacheEnabled(self)
                  THEN get(self.cache_manager, h, clean_tickers, period, ttl_hours, t)
                  ELSE [self |-> self.cache_manager, out |-> NoTable]
        looked == [self EXCEPT !.cache_manager = cached.self]
        fetched == FetchLoop(looked, clean_tickers, provider, <<>>)
        combined_df == Table(fetched.successful_data, t)
    IN  IF tickers = <<>>
        THEN [self |-> self, served |-> "none",
              out |-> ValueError("At least one ticker must be provided")]
        ELSE IF clean_tickers = <<>>
        THEN [self |-> self, served |-> "none",
              out |-> ValueError("No valid tickers provided after cleaning")]
        ELSE IF cached.out # NoTable
        THEN [self |-> looked, served |-> "cache", out |-> Return(cached.out)]
        ELSE IF fetched.successful_data = <<>>
        THEN [self |-> fetched.self, served |-> "provider",
              out |-> YFinanceAdapterError]
        ELSE [self |-> IF CacheEnabled(self)
                       THEN [fetched.self EXCEPT !.cache_manager =
                               set(@, h, fetched.successful_data, period,
                                   combined_df, t)]
                       ELSE fetched.self,
              served |-> "provider", out |-> Return(combined_df)]

\* fetch_prices: the adapter after the call, what the call returns or
\* raises, and where the rows returned came from.
fetch_prices(self, h, tickers, period, ttl_hours, t, provider) ==
    LET clean_tickers == clean(tickers)
        cached == IF CacheEnabled(self)
                  THEN get(self.cache_manager, h, clean_tickers, period, ttl_hours, t)
                  ELSE [self |-> self.cache_manager, out |-> NoTable]
        looked == [self EXCEPT !.cache_manager = cached.self]
        fetched == FetchLoop(looked, clean_tickers, provider, <<>>)
        combined_df == Table(fetched.successful_data, t)
    IN  IF tickers = <<>>
        THEN [self |-> self, served |-> "none",
              out |-> ValueError("At least one ticker must be provided")]
        ELSE IF clean_tickers = <<>>
        THEN [self |-> self, served |-> "none",
              out |-> ValueError("No valid tickers provided after cleaning")]
        ELSE IF cached.out # NoTable
        THEN [self |-> looked, served |-> "cache", out |-> Return(cached.out)]
        ELSE IF fetched.successful_data = <<>>
        THEN [self |-> fetched.self, served |-> "provider",
              out |-> YFinanceAdapterError]
        ELSE [self |-> IF CacheEnabled(self)
                       THEN [fetched.self EXCEPT !.cache_manager =
                               set(@, h, clean_tickers, period, combined_df, t)]
                       ELSE fetched.self,
              served |-> "provider", out |-> Return(combined_df)]

\* StockDataResult, without the quality results and the duration.
StockDataResult(success, data, failed_tickers, cache_hit) ==
    [success |-> success, data |-> data, failed_tickers |-> failed_tickers,
     cache_hit |-> cache_hit]

\* Mutant: the tickers compared after cleaning.
NotInCleaned(tickers, successful_tickers) ==
    SelectSeq(tickers, LAMBDA x : \A i \in DOMAIN successful_tickers :
                                     successful_tickers[i] # StripUpper(x))

\* [t for t in tickers if t not in successful_tickers]
NotIn(tickers, successful_tickers) ==
    SelectSeq(tickers, LAMBDA x : \A i \in DOMAIN successful_tickers :
                                     successful_tickers[i] # x)

\* get_stock_data: the adapter after the call, the result returned, and
\* what the adapter's fetch_prices did inside it.
get_stock_data(self, h, tickers, period, ttl_hours, t, provider) ==
    LET peeked == IF CacheEnabled(self)
                  THEN get(self.cache_manager, h, tickers, period, ttl_hours, t)
                  ELSE [self |-> self.cache_manager, out |-> NoTable]
        cache_hit == peeked.out # NoTable
        r == fetch_prices([self EXCEPT !.cache_manager = peeked.self],
                          h, tickers, period, ttl_hours, t, provider)
    IN  [self |-> r.self, served |-> r.served, adapter_out |-> r.out,
         out |-> IF r.out.tag = "raise"
                 THEN Return(StockDataResult(FALSE, NoTable, tickers, FALSE))
                 ELSE Return(StockDataResult(TRUE, r.out.val,
                                 NotIn(tickers, r.out.val.rows), cache_hit))]

\* Hashes of the tuples of the lists that clean to nothing; they collide
\* with no other.
HashOfBlank == (<<>> :> Len(HashedTuples) @@ <<" ">> :> Len(HashedTuples) + 1)

ServiceTickerLists == {<<"AAPL", "MSFT">>, <<"aapl">>, <<" ">>}
ServiceTtlArgs == {None, Some(1)}
ServicePeriod == "5y"

\* The providers a call may meet: a script for each cleaned ticker.
Providers(tickers) ==
    [{clean(tickers)[i] : i \in DOMAIN clean(tickers)} -> ProviderScripts]

\* The number of get calls the cache manager received between two adapters.
GetsBetween(before, after) ==
    IF CacheEnabled(after)
    THEN (after.cache_manager.cache_hits + after.cache_manager.cache_misses)
         - (before.cache_manager.cache_hits + before.cache_manager.cache_misses)
    ELSE 0

\* An adapter built with or without a cache, and no call made yet.
ServiceInit ==
    /\ prices = <<>>
    /\ call = NoCall
    /\ BatchIdle
    /\ AdapterIdle
    /\ \/ /\ cache_manager = CacheManager(DefaultTtlHours)
          /\ hash \in {h @@ HashOfBlank : h \in HashFunctions}
       \/ /\ cache_manager = [k |-> "None"]
          /\ hash = EmptyDict
    /\ now = 0
    /\ get_calls = 0
    /\ ops = 0

\* The variables after a call that left the adapter as r.self.
ServiceStep(r) ==
    /\ cache_manager' = r.self.cache_manager
    /\ api_calls' = r.self.api_calls
    /\ failed_calls' = r.self.failed_calls
    /\ get_calls' = get_calls
           + GetsBetween(Adapter(cache_manager, api_calls, failed_calls), r.self)
    /\ ops' = ops + 1
    /\ UNCHANGED <<prices, batch_vars, max_retries, attempt_number, hist_data,
                   fetch_pc, fetch_out, hash, now>>

\* The call made before the one being made, without the memory of its own
\* predecessor.
Previous == [x \in DOMAIN call \ {"prev"} |-> call[x]]

CallFetchPrices ==
    /\ ops < MaxOps
    /\ \E tickers \in ServiceTickerLists, ttl_hours \in ServiceTtlArgs :
         \E provider \in Providers(tickers) :
            \E self \in {Adapter(cache_manager, api_calls, failed_calls)} :
            \E r \in {fetch_prices(self, hash, tickers, ServicePeriod,
                                   ttl_hours, now, provider)} :
                /\ call' = [fn |-> "fetch_prices", tickers |-> tickers,
                            period |-> ServicePeriod, ttl_hours |-> ttl_hours,
                            time |-> now, before |-> self,
                            provider |-> IF r.served = "provider"
                                         THEN provider ELSE EmptyDict,
                            served |-> r.served, out |-> r.out,
                            prev |-> Previous]
                /\ ServiceStep(r)

CallGetStockData ==
    /\ ops < MaxOps
    /\ \E tickers \in ServiceTickerLists, ttl_hours \in ServiceTtlArgs :
         \E provider \in Providers(tickers) :
            \E self \in {Adapter(cache_manager, api_calls, failed_calls)} :
            \E r \in {get_stock_data(self, hash, tickers, ServicePeriod,
                                     ttl_hours, now, provider)} :
                /\ call' = [fn |-> "get_stock_data", tickers |-> tickers,
                            period |-> ServicePeriod, ttl_hours |-> ttl_hours,
                            time |-> now, before |-> self,
                            provider |-> IF r.served = "provider"
                                         THEN provider ELSE EmptyDict,
                            served |-> r.served, adapter_out |-> r.adapter_out,
                            out |-> r.out, prev |-> Previous]
                /\ ServiceStep(r)

\* Calls of fetch_prices on one adapter.
PricesNext == CallFetchPrices \/ Tick

PricesSpec == ServiceInit /\ [][PricesNext]_vars

\* Calls of get_stock_data on the service of one adapter.
ServiceNext == CallGetStockData \/ Tick

ServiceSpec == ServiceInit /\ [][ServiceNext]_vars

-----------------------------------------------------------------------------
(* Properties.  They are stated on the inputs themselves: prices by their  *)
(* kinds and exponents, rates and min_years by numerator and denominator.  *)

SharpeCalled == call.fn = "calculate_sharpe_ratio"
ReturnsCalled == call.fn = "calculate_daily_returns"

Missing(p) == p.k = "nan"
NonPositive(p) == p.k \in {"zero", "neg"}
\* A series calculate_daily_returns accepts with method 'log'.
Accepted(ps) == Len(ps) >= 2 /\ \A i \in 1..Len(ps) : ~NonPositive(ps[i])
\* Positions of the valid returns, and the return at a valid position.
ValidAt(ps) == {i \in 1..(Len(ps) - 1) : ~Missing(ps[i]) /\ ~Missing(ps[i + 1])}
RetAt(ps, i) == ps[i + 1].e - ps[i].e
\* A rate the Rate Validator accepts: numeric, 0 <= rate <= 0.3.
RateIsValid(r) ==
    r.t \in {"int", "float"} /\ r.v.k = "num" /\ r.v.n >= 0 /\ 10 * r.v.n <= 3 * r.v.d

RECURSIVE SumOver(_, _, _)
\* Sum of f(ps, i) over the positions in I.
SumOver(f(_, _), ps, I) ==
    IF I = {} THEN 0
    ELSE LET i == CHOOSE x \in I : TRUE
         IN  f(ps, i) + SumOver(f, ps, I \ {i})
RetSqAt(ps, i) == RetAt(ps, i) * RetAt(ps, i)

\* n * rd * T * mean_excess, an integer with the sign of mean_excess:
\* mean_excess = sum / n - rn / (rd * T).
ExcessNum(ps, r, T) ==
    SumOver(RetAt, ps, ValidAt(ps)) * r.v.d * T - Cardinality(ValidAt(ps)) * r.v.n
\* n * (sum of squared deviations) = n * sum(r^2) - (sum r)^2.
DevNum(ps) ==
    Cardinality(ValidAt(ps)) * SumOver(RetSqAt, ps, ValidAt(ps))
    - SumOver(RetAt, ps, ValidAt(ps)) * SumOver(RetAt, ps, ValidAt(ps))
Sgn(x) == IF x > 0 THEN 1 ELSE IF x < 0 THEN -1 ELSE 0

\* C1 (as claimed): for an accepted series and a valid rate that leave at least
\* one valid return, all valid returns identical gives +inf / -inf / NaN by the
\* sign of mean_excess.
C1_DegeneratePolicyAsClaimed ==
    (/\ SharpeCalled
     /\ RateIsValid(call.risk_free_rate)
     /\ call.trading_days_per_year >= 1
     /\ Accepted(prices)
     /\ ValidAt(prices) # {}
     /\ \A i, j \in ValidAt(prices) : RetAt(prices, i) = RetAt(prices, j))
    => /\ call.out.tag = "return"
       /\ LET s == Sgn(ExcessNum(prices, call.risk_free_rate,
                                 call.trading_days_per_year))
          IN  call.out.val[1] = IF s > 0 THEN RatioInf
                                ELSE IF s < 0 THEN RatioNegInf
                                ELSE RatioNaN

\* C2: with n >= 2 valid returns that are not all identical the ratio is
\* sign(mean_excess) * sqrt(mean_excess^2 * T / var), var the (n-1) sample
\* variance of the raw valid returns; in integers
\*   ratio^2 = ExcessNum^2 * (n - 1) / (n * rd^2 * T * DevNum).
\* With one valid return the (n-1) deviation is 0/0 and the ratio is NaN.
C2_NonDegenerateRatio ==
    (/\ SharpeCalled
     /\ RateIsValid(call.risk_free_rate)
     /\ call.trading_days_per_year >= 1
     /\ Accepted(prices)
     /\ ValidAt(prices) # {})
    => LET n == Cardinality(ValidAt(prices))
           T == call.trading_days_per_year
           rd == call.risk_free_rate.v.d
           ex == ExcessNum(prices, call.risk_free_rate, T)
           dev == DevNum(prices)
           ratio == call.out.val[1]
       IN  /\ call.out.tag = "return"
           /\ n = 1 => ratio = RatioNaN
           /\ (n >= 2 /\ dev # 0) =>
                /\ ratio.k = "fin"
                /\ ratio.s = Sgn(ex)
                /\ <<ratio.n, ratio.d>> = Q(ex * ex * (n - 1), n * rd * rd * T * dev)

\* C2 witness: a finite ratio from a series with a missing price and two
\* different valid returns, at a positive rate.
C2_Witness ==
    /\ SharpeCalled
    /\ call.out.tag = "return"
    /\ call.out.val[1].k = "fin"
    /\ call.out.val[1].s # 0
    /\ call.risk_free_rate.v.n > 0
    /\ \E i \in 1..Len(prices) : Missing(prices[i])
    /\ Cardinality(ValidAt(prices)) >= 2

\* C3 (as claimed): calculate_sharpe_ratio returns a pair or raises
\* SharpeCalculationError, whatever its arguments.
C3_ClosedTaxonomyAsClaimed ==
    SharpeCalled =>
        \/ call.out.tag = "return"
        \/ call.out.type = "SharpeCalculationError"

\* C4: a returned is_partial is the negation of "at least
\* floor(min_years * trading_days_per_year) non-missing prices", and a call with
\* a valid rate and an accepted series returns, however short the history
\* (trading_days_per_year = 0 aside, which fails in the division).
C4_PartialFlag ==
    SharpeCalled =>
        LET valid == Cardinality({i \in 1..Len(prices) : ~Missing(prices[i])})
            need == (call.min_years[1] * call.trading_days_per_year)
                        \div call.min_years[2]
        IN  /\ call.out.tag = "return" => (call.out.val[2] <=> ~(valid >= need))
            /\ (/\ RateIsValid(call.risk_free_rate)
                /\ Accepted(prices)
                /\ call.trading_days_per_year >= 1) => call.out.tag = "return"

\* C4 witness: a finite ratio returned with the partial flag set, and the
\* history short of the minimum.
C4_Witness ==
    /\ SharpeCalled
    /\ call.out.tag = "return"
    /\ call.out.val[1].k = "fin"
    /\ call.out.val[2] = TRUE
    /\ call.min_years = <<3, 1>>
    /\ call.trading_days_per_year = DefaultTradingDays

\* C9: for an accepted series the result has len(prices) - 1 elements, element
\* i is missing iff price i or price i+1 is, and is ln(P[i+1] / P[i]) otherwise.
C9_ReturnSeries ==
    (ReturnsCalled /\ call.method = "log" /\ Accepted(prices))
    => /\ call.out.tag = "return"
       /\ Len(call.out.val) = Len(prices) - 1
       /\ \A i \in 1..(Len(prices) - 1) :
            /\ IsNaN(call.out.val[i]) <=> (Missing(prices[i]) \/ Missing(prices[i + 1]))
            /\ i \in ValidAt(prices) =>
                 call.out.val[i] = [k |-> "num", n |-> RetAt(prices, i), d |-> 1]

\* C9 witness: a four-price series with a missing price, a rising and a
\* falling valid pair.
C9_Witness ==
    /\ ReturnsCalled
    /\ call.out.tag = "return"
    /\ Len(prices) = 4
    /\ \E i \in 1..4 : Missing(prices[i])
    /\ \E i \in ValidAt(prices) : RetAt(prices, i) # 0

\* C10: with method 'log' and at least 2 entries the call fails with
\* NonPositivePrice iff some price is zero or negative; missing prices never
\* count as non-positive.
C10_NonPositiveIff ==
    (ReturnsCalled /\ call.method = "log" /\ Len(prices) >= 2)
    => ((call.out = [tag |-> "raise", type |-> "SharpeCalculationError",
                     kind |-> "NonPositivePrice"])
        <=> \E i \in 1..Len(prices) : NonPositive(prices[i]))

\* C10 witness: a series of missing and positive prices only is accepted.
C10_Witness ==
    /\ ReturnsCalled
    /\ call.method = "log"
    /\ call.out.tag = "return"
    /\ Cardinality({i \in 1..Len(prices) : Missing(prices[i])}) >= 2

-----------------------------------------------------------------------------
(* Properties of the batch. *)

\* The pair the claim gives a ticker: (NaN, true) if its calculation fails
\* with SharpeCalculationError, the calculation's pair otherwise.
ExpectedPair(t) ==
    LET out == calculate_sharpe_ratio(price_data[t], risk_free_rate, min_years,
                                      DefaultTradingDays)
    IN  IF out.tag = "raise" THEN <<RatioNaN, TRUE>> ELSE out.val

\* C5: with a valid rate the batch never raises, and every ticker recorded
\* holds (NaN, true) if its calculation failed and the calculation's pair
\* otherwise; a returned batch has recorded every ticker.
C5_BatchIsolation ==
    RateIsValid(risk_free_rate) =>
        /\ pc # "raised"
        /\ \A t \in DOMAIN results : results[t] = ExpectedPair(t)
        /\ pc = "returned" => \A t \in DOMAIN price_data : t \in DOMAIN results

\* C5 witness: a returned batch holding a failed ticker next to a finite ratio.
C5_Witness ==
    /\ pc = "returned"
    /\ \E t, u \in DOMAIN results :
         /\ calculate_sharpe_ratio(price_data[t], risk_free_rate, min_years,
                                   DefaultTradingDays).tag = "raise"
         /\ results[t] = <<RatioNaN, TRUE>>
         /\ results[u][1].k = "fin"

\* C6: the mapping returned has exactly the keys of the input mapping.
C6_KeysPreserved ==
    /\ pc = "returned" => DOMAIN results = DOMAIN price_data
    /\ DOMAIN results \subseteq DOMAIN price_data

\* C6 witness: a returned batch of three tickers, one of them failing.
C6_Witness ==
    /\ pc = "returned"
    /\ Cardinality(DOMAIN price_data) = 3
    /\ \E t \in DOMAIN price_data : Len(price_data[t]) < 2

\* C7: with a rate the validator rejects, the batch raises the validator's
\* error before any ticker is processed and never returns.
C7_FailFast ==
    ~RateIsValid(risk_free_rate) =>
        /\ pc \in {"validate", "raised"}
        /\ results = EmptyDict
        /\ todo = <<>>
        /\ pc = "raised" =>
             error = [tag |-> "raise", type |-> "SharpeCalculationError",
                      kind |-> IF risk_free_rate.t = "str" THEN "InvalidRateType"
                               ELSE "RateOutOfRange"]

\* C7 witness: a batch of good series raised on a non-numeric rate.
C7_Witness ==
    /\ pc = "raised"
    /\ risk_free_rate.t = "str"
    /\ Cardinality(DOMAIN price_data) = 2
    /\ \A t \in DOMAIN price_data : Len(price_data[t]) = 3

\* C8: whatever the order in which the workers complete, every recorded pair
\* is the one the sequential loop records, and the returned mapping is the
\* sequential loop's.
C8_OrderIndependent ==
    LET seq == BatchLoop(EmptyDict, items, price_data, risk_free_rate, min_years)
    IN  /\ \A t \in DOMAIN results : t \in DOMAIN seq /\ results[t] = seq[t]
        /\ pc = "returned" => results = seq

\* Position of a ticker in the dict's order.
PosOf(t) == CHOOSE i \in DOMAIN items : items[i] = t

\* C8 witness: a ticker recorded while one earlier in the dict's order is
\* still in flight, the two with different results.
C8_Witness ==
    /\ pc = "loop"
    /\ \E t \in DOMAIN results, u \in inflight :
         /\ PosOf(u) < PosOf(t)
         /\ results[t] # ExpectedPair(u)

-----------------------------------------------------------------------------
(* has_sufficient_data *)

SufficiencyCalled == call.fn = "has_sufficient_data"

\* Number of entries of ps that are not the missing marker.
ValidCount(ps) == Cardinality({i \in 1..Len(ps) : ~Missing(ps[i])})

\* floor(min_years * trading_days_per_year), for a rational min_years.
FloorObservations(my, td) == (my[1] * td) \div my[2]

\* C11: has_sufficient_data returns true if and only if the number of
\* non-missing entries is at least floor(min_years * trading_days_per_year),
\* whatever the total length.
C11_SufficiencyIff ==
    SufficiencyCalled =>
        /\ call.out.tag = "return"
        /\ call.out.val =
             (ValidCount(prices) >= FloorObservations(call.min_years,
                                                      call.trading_days_per_year))

\* C11 witness: the boundary of three observations met exactly, by a series
\* of four entries one of which is missing.
C11_Witness ==
    /\ SufficiencyCalled
    /\ FloorObservations(call.min_years, call.trading_days_per_year) = 3
    /\ Len(prices) = 4
    /\ ValidCount(prices) = 3
    /\ call.out = Return(TRUE)

-----------------------------------------------------------------------------
(* validate_risk_free_rate *)

ValidateCalled == call.fn = "validate_risk_free_rate"

\* The rate is a Python number.
Numeric(r) == r.t \in {"int", "float"}

\* rate < q and rate > q on a number; both are false of NaN.
RateBelow(r, q) == ~IsNaN(r.v) /\ r.v.n * q[2] < q[1] * r.v.d
RateAbove(r, q) == ~IsNaN(r.v) /\ r.v.n * q[2] > q[1] * r.v.d

\* C13 (as claimed): InvalidRateType if the rate is not numeric,
\* RateOutOfRange if it is numeric and rate < 0 or rate > 0.3, and success
\* otherwise.
C13_ValidatorOutcomeAsClaimed ==
    ValidateCalled =>
        call.out =
          IF ~Numeric(call.risk_free_rate)
          THEN SharpeCalculationError("InvalidRateType")
          ELSE IF \/ RateBelow(call.risk_free_rate, <<0, 1>>)
                  \/ RateAbove(call.risk_free_rate, <<3, 10>>)
               THEN SharpeCalculationError("RateOutOfRange")
          ELSE Return("None")

\* C13 (amended): InvalidRateType if the rate is not an int or a float
\* (decided before the range), RateOutOfRange if it is one and
\* 0 <= rate <= 0.3 does not hold (rate < 0, rate > 0.3, or NaN), and success
\* otherwise; 0 and 0.3 are accepted.
C13_ValidatorOutcome ==
    ValidateCalled =>
        call.out =
          IF ~Numeric(call.risk_free_rate)
          THEN SharpeCalculationError("InvalidRateType")
          ELSE IF \/ RateBelow(call.risk_free_rate, <<0, 1>>)
                  \/ RateAbove(call.risk_free_rate, <<3, 10>>)
                  \/ IsNaN(call.risk_free_rate.v)
               THEN SharpeCalculationError("RateOutOfRange")
          ELSE Return("None")

\* C13 witness: the upper bound 0.3 itself accepted.
C13_Witness ==
    /\ ValidateCalled
    /\ call.risk_free_rate = Rate("float", Num(<<3, 10>>))
    /\ call.out = Return("None")

-----------------------------------------------------------------------------
(* The rate inside calculate_sharpe_ratio *)

\* C14 (as claimed): whatever the prices, calculate_sharpe_ratio called with a
\* rate that validate_risk_free_rate rejects fails with the validator's error,
\* and called with a rate the validator accepts it does not fail on the rate.
C14_RateValidatedFirstAsClaimed ==
    SharpeCalled =>
        LET v == validate_risk_free_rate(call.risk_free_rate)
        IN  /\ v.tag = "raise" => call.out = v
            /\ v.tag = "return" =>
                  ~(/\ call.out.tag = "raise"
                    /\ call.out.kind \in {"InvalidRateType", "RateOutOfRange"})

-----------------------------------------------------------------------------
(* No valid return *)

\* C15: for a valid rate and a series of at least 2 entries, none of them
\* non-positive, in which no two adjacent prices are both present,
\* calculate_sharpe_ratio raises nothing and returns (NaN, is_partial).
C15_NoValidReturnIsNaN ==
    (/\ SharpeCalled
     /\ RateIsValid(call.risk_free_rate)
     /\ Accepted(prices)
     /\ ValidAt(prices) = {})
    => /\ call.out.tag = "return"
       /\ call.out.val[1] = RatioNaN
       /\ call.out.val[2] =
            ~(ValidCount(prices) >= FloorObservations(call.min_years,
                                                      call.trading_days_per_year))

\* C15 witness: two present prices separated by a missing one, so that both
\* returns are missing, with trading_days_per_year = 0.
C15_Witness ==
    /\ SharpeCalled
    /\ RateIsValid(call.risk_free_rate)
    /\ prices = <<PExp(0), PNaN, PExp(1)>>
    /\ call.trading_days_per_year = 0
    /\ call.out.tag = "return"
    /\ call.out.val[1] = RatioNaN

-----------------------------------------------------------------------------
(* sharpe_from_returns against calculate_sharpe_ratio *)

FromReturnsCalled == call.fn = "sharpe_from_returns"

\* C16: whenever calculate_sharpe_ratio returns a pair for prices, a rate and
\* trading_days_per_year, sharpe_from_returns on the daily returns of prices
\* returns the ratio of that pair: the same finite value, NaN or infinity.
C16_FromReturnsAgrees ==
    FromReturnsCalled =>
        \A my \in MinYears :
            LET out == calculate_sharpe_ratio(prices, call.risk_free_rate, my,
                                              call.trading_days_per_year)
            IN  out.tag = "return" => call.out = Return(out.val[1])

\* C16 witness: a finite ratio returned from three valid returns that differ.
C16_Witness ==
    /\ FromReturnsCalled
    /\ Len(DropNaN(call.returns)) = 3
    /\ call.out.tag = "return"
    /\ call.out.val.k = "fin"
    /\ call.out.val.s # 0
    /\ calculate_sharpe_ratio(prices, call.risk_free_rate, <<3, 1>>,
                              call.trading_days_per_year).tag = "return"

-----------------------------------------------------------------------------
(* Monotonicity in the risk-free rate *)

\* x <= y for rationals x >= 0 and y > 0, by the normal form of x / y.
FracLe(x, y) == LET q == QDiv(x, y) IN q[1] <= q[2]

\* a <= b for finite ratios s * sqrt(n / d).
RatioLe(a, b) ==
    IF a.s <= 0 /\ b.s >= 0 THEN TRUE
    ELSE IF a.s >= 0 /\ b.s <= 0 THEN FALSE
    ELSE IF a.s > 0 THEN FracLe(<<a.n, a.d>>, <<b.n, b.d>>)
    ELSE FracLe(<<b.n, b.d>>, <<a.n, a.d>>)

RateLt(r1, r2) == r1.v.n * r2.v.d < r2.v.n * r1.v.d

\* C17: for a fixed price series and valid rates r1 < r2, if
\* calculate_sharpe_ratio returns a finite ratio for both, the ratio for r2
\* is not greater than the ratio for r1.
C17_MonotoneInRate ==
    (/\ SharpeCalled
     /\ RateIsValid(call.risk_free_rate)
     /\ call.out.tag = "return"
     /\ call.out.val[1].k = "fin")
    => \A r1 \in Rates :
          (RateIsValid(r1) /\ RateLt(r1, call.risk_free_rate)) =>
              LET out1 == calculate_sharpe_ratio(prices, r1, call.min_years,
                                                 call.trading_days_per_year)
              IN  (out1.tag = "return" /\ out1.val[1].k = "fin")
                  => RatioLe(call.out.val[1], out1.val[1])

\* C17 witness: a series whose ratio is positive at rate 0 and strictly
\* smaller, yet still positive, at rate 0.3.
C17_Witness ==
    /\ SharpeCalled
    /\ call.risk_free_rate = Rate("float", Num(<<3, 10>>))
    /\ call.trading_days_per_year = DefaultTradingDays
    /\ call.out.tag = "return"
    /\ call.out.val[1].k = "fin"
    /\ call.out.val[1].s > 0
    /\ LET out1 == calculate_sharpe_ratio(prices, Rate("float", Num(<<0, 1>>)),
                                          call.min_years, DefaultTradingDays)
       IN  /\ out1.tag = "return"
           /\ out1.val[1].k = "fin"
           /\ ~RatioLe(out1.val[1], call.out.val[1])

-----------------------------------------------------------------------------
(* Round trip of the log returns *)

\* C18: for an accepted series with no missing value the elements of
\* calculate_daily_returns(prices) sum to ln(last_price / first_price),
\* at every length of at least 2.
C18_ReturnsTelescope ==
    (/\ ReturnsCalled
     /\ call.method = "log"
     /\ Accepted(prices)
     /\ \A i \in 1..Len(prices) : ~Missing(prices[i]))
    => /\ call.out.tag = "return"
       /\ \A i \in 1..Len(call.out.val) : ~IsNaN(call.out.val[i])
       /\ QSum(call.out.val) = QInt(prices[Len(prices)].e - prices[1].e)

\* C18 witness: four prices that rise, stay and fall back, whose three
\* returns sum to ln(1) = 0.
C18_Witness ==
    /\ ReturnsCalled
    /\ prices = <<PExp(0), PExp(1), PExp(1), PExp(0)>>
    /\ call.out.tag = "return"
    /\ QSum(call.out.val) = QZero

-----------------------------------------------------------------------------
(* The adapter's retries *)

\* C19 (as claimed): an adapter constructed with max_retries = N makes at
\* most N provider attempts for one ticker.
C19_RetryBoundAsClaimed == api_calls <= max_retries

\* C20 (as claimed): when every attempt raised, the caller of
\* _fetch_ticker_data receives a YFinanceAdapterError; when the provider
\* returned an empty table, the caller receives None.
C20_FetchErrorKindAsClaimed ==
    /\ fetch_pc = "raised" => fetch_out.type = "YFinanceAdapterError"
    /\ (fetch_pc = "returned" /\ hist_data = "empty") => fetch_out = Return("None")

-----------------------------------------------------------------------------
(* Which error calculate_daily_returns reports *)

\* C28: an input that violates several constraints reports one error, chosen
\* in the order unsupported method, fewer than 2 entries, non-positive price;
\* an input that violates none returns.
C28_ErrorOrder ==
    ReturnsCalled =>
        /\ call.method # "log" =>
              call.out = SharpeCalculationError("UnsupportedMethod")
        /\ (call.method = "log" /\ Len(prices) < 2) =>
              call.out = SharpeCalculationError("InsufficientPoints")
        /\ (/\ call.method = "log"
            /\ Len(prices) >= 2
            /\ \E i \in 1..Len(prices) : NonPositive(prices[i])) =>
              call.out = SharpeCalculationError("NonPositivePrice")
        /\ (call.method = "log" /\ Accepted(prices)) => call.out.tag = "return"

\* C28 witness: a single negative price with method 'log' reported as
\* InsufficientPoints.
C28_Witness ==
    /\ ReturnsCalled
    /\ call.method = "log"
    /\ prices = <<PNeg>>
    /\ call.out = SharpeCalculationError("InsufficientPoints")

-----------------------------------------------------------------------------
(* What a non-partial result rests on *)

\* C29 (as claimed): whenever calculate_sharpe_ratio returns
\* is_partial = false, the ratio was computed from at least
\* floor(min_years * trading_days_per_year) - 1 valid returns.
C29_NonPartialHasHistoryAsClaimed ==
    (SharpeCalled /\ call.out.tag = "return" /\ call.out.val[2] = FALSE)
    => Len(DropNaN(calculate_daily_returns(prices, "log").val))
         >= FloorObservations(call.min_years, call.trading_days_per_year) - 1

\* The call last made is a CacheManager call of the given name.
CacheCalled(fn) == call.fn = fn

\* The TTL a get is asked to apply: the override when one is given, the
\* manager's default otherwise.
RequestedTtl(self, ttl_hours) ==
    IF ttl_hours = None THEN self.default_ttl_hours ELSE ttl_hours[1]

\* The entry under the key was, before the call, present and younger than ttl.
Fresh(self, cache_key, ttl, t) ==
    /\ cache_key \in DOMAIN self.files
    /\ cache_key \in DOMAIN self.metadata
    /\ t < self.metadata[cache_key].timestamp + ttl

\* C23 (as claimed): get returns the stored table exactly when the entry
\* exists and the time is earlier than its timestamp plus ttl_hours, the
\* default TTL standing in only when no override is given; otherwise it
\* returns None and counts a miss, and an expired entry loses its file and
\* its metadata record.
C23_TtlAsClaimed ==
    CacheCalled("get") =>
        LET b == call.before
            cache_key == _get_cache_key(hash, call.tickers, call.period)
        IN  IF Fresh(b, cache_key, RequestedTtl(b, call.ttl_hours), call.time)
            THEN call.out = b.files[cache_key]
            ELSE /\ call.out = NoTable
                 /\ cache_manager.cache_misses = b.cache_misses + 1
                 /\ cache_key \notin DOMAIN cache_manager.files
                 /\ cache_key \notin DOMAIN cache_manager.metadata

\* C24: a get adds one to cache_hits when it returns a table and one to
\* cache_misses when it returns None, and leaves the other counter alone;
\* set and cleanup_expired change neither; the two counters add up to the
\* number of get calls made.
C24_HitMissAccounting ==
    /\ cache_manager.cache_hits + cache_manager.cache_misses = get_calls
    /\ CacheCalled("get") =>
          IF call.out = NoTable
          THEN /\ cache_manager.cache_misses = call.before.cache_misses + 1
               /\ cache_manager.cache_hits = call.before.cache_hits
          ELSE /\ cache_manager.cache_hits = call.before.cache_hits + 1
               /\ cache_manager.cache_misses = call.before.cache_misses
    /\ CacheCalled("set") \/ CacheCalled("cleanup_expired") =>
          /\ cache_manager.cache_hits = call.before.cache_hits
          /\ cache_manager.cache_misses = call.before.cache_misses

\* C24 witness: a get on an expired entry, which returned None, was counted
\* as the one miss and removed the entry.
C24_Witness ==
    /\ CacheCalled("get")
    /\ call.out = NoTable
    /\ call.before.files # EmptyDict
    /\ _get_cache_key(hash, call.tickers, call.period) \in DOMAIN call.before.files
    /\ cache_manager.cache_misses = 1
    /\ cache_manager.cache_hits = 0
    /\ get_calls = 1

\* The ticker lists and periods the cache is called with.
CacheRequests == CacheTickerLists \X Periods

\* The tickers of a list, without their order.
TickerSet(tickers) == {tickers[i] : i \in DOMAIN tickers}

\* C25 (as claimed): a get that follows a set of a permutation of its
\* tickers with the same period, within the TTL, returns the table that was
\* set; two lists with different ticker sets, or two different periods,
\* never have the same cache key.
C25_KeysAsClaimed ==
    /\ \A r1 \in CacheRequests, r2 \in CacheRequests :
          _get_cache_key(hash, r1[1], r1[2]) = _get_cache_key(hash, r2[1], r2[2])
              => TickerSet(r1[1]) = TickerSet(r2[1]) /\ r1[2] = r2[2]
    /\ CacheCalled("get") =>
          LET b == call.before
              cache_key == _get_cache_key(hash, call.tickers, call.period)
          IN  (/\ cache_key \in DOMAIN b.metadata
               /\ TickerSet(b.metadata[cache_key].tickers) = TickerSet(call.tickers)
               /\ b.metadata[cache_key].period = call.period
               /\ Fresh(b, cache_key, RequestedTtl(b, call.ttl_hours), call.time))
              => call.out = b.files[cache_key]

PricesCalled == call.fn = "fetch_prices"

\* What the provider does at one attempt of a script.
OutcomeAt(script, attempt) ==
    IF attempt <= Len(script) THEN script[attempt] ELSE script[Len(script)]

\* The provider hands out data for the ticker before the attempts run out.
Produces(script) ==
    \E a \in 1..StopAfterAttempt :
        /\ OutcomeAt(script, a) = "data"
        /\ \A b \in 1..(a - 1) : OutcomeAt(script, b) = "raise"

\* The cleaned tickers of a call whose fetch succeeded, in request order.
Succeeded(c) == SelectSeq(clean(c.tickers), LAMBDA x : Produces(c.provider[x]))

\* C21: a fetch_prices call that goes to the provider for a non-empty list
\* of cleaned tickers returns the rows of exactly the tickers whose fetch
\* succeeded when there is one, and raises YFinanceAdapterError when there
\* is none; no other call raises YFinanceAdapterError.
C21_PartialFailure ==
    PricesCalled =>
        /\ call.served = "provider" =>
              /\ clean(call.tickers) # <<>>
              /\ IF Succeeded(call) = <<>>
                 THEN call.out = YFinanceAdapterError
                 ELSE call.out = Return(Table(Succeeded(call), call.time))
        /\ call.out = YFinanceAdapterError =>
              call.served = "provider" /\ Succeeded(call) = <<>>

\* C21 witness: of AAPL and MSFT the first failed on every attempt and the
\* second succeeded, and the call returned the rows of MSFT.
C21_Witness ==
    /\ PricesCalled
    /\ call.tickers = <<"AAPL", "MSFT">>
    /\ call.served = "provider"
    /\ call.provider["AAPL"] = <<"raise">>
    /\ call.out = Return(Table(<<"MSFT">>, call.time))
    /\ api_calls = call.before.api_calls + StopAfterAttempt + 1

\* The call follows a fetch_prices call that returned data, asks for the
\* same tickers and period, and is made within the TTL of that data.
RepeatsWithinTtl(c) ==
    /\ c.prev.fn = "fetch_prices"
    /\ c.prev.out.tag = "return"
    /\ CacheEnabled(c.before)
    /\ c.tickers = c.prev.tickers
    /\ c.period = c.prev.period
    /\ c.time < c.prev.out.val.stamp
                   + RequestedTtl(c.before.cache_manager, c.ttl_hours)

\* C22: with the cache enabled, a fetch_prices call that repeats, within the
\* TTL, the tickers and period of the fetch_prices call before it, which
\* returned data, returns the same table, leaves api_calls as it was and
\* adds exactly one to cache_hits.
C22_RepeatServedFromCache ==
    PricesCalled /\ RepeatsWithinTtl(call) =>
        /\ call.out = call.prev.out
        /\ api_calls = call.before.api_calls
        /\ cache_manager.cache_hits = call.before.cache_manager.cache_hits + 1
        /\ cache_manager.cache_misses = call.before.cache_manager.cache_misses

\* C22 witness: the same list fetched from the provider and, an hour later,
\* served from the cache.
C22_Witness ==
    /\ PricesCalled
    /\ RepeatsWithinTtl(call)
    /\ call.prev.served = "provider"
    /\ call.time = call.prev.time + 1
    /\ call.served = "cache"
    /\ call.out.val.rows = <<"AAPL", "MSFT">>

\* The call got data for some and not all of its cleaned tickers from the
\* provider.
PartlySucceeded(c) ==
    /\ c.fn = "fetch_prices"
    /\ c.served = "provider"
    /\ c.out.tag = "return"
    /\ c.out.val.rows # clean(c.tickers)

\* C30: with the cache enabled, a fetch_prices call in which some and not
\* all tickers succeeded leaves its partial table stored under the key of
\* the complete cleaned list; a call that repeats it within the TTL returns
\* that table from the cache and makes no provider attempt.
C30_PartialResultCached ==
    /\ PartlySucceeded(call) /\ CacheEnabled(call.before) =>
          LET cache_key == _get_cache_key(hash, clean(call.tickers), call.period)
          IN  /\ cache_key \in DOMAIN cache_manager.files
              /\ cache_manager.files[cache_key] = call.out.val
              /\ cache_manager.metadata[cache_key].tickers = clean(call.tickers)
    /\ PricesCalled /\ PartlySucceeded(call.prev) /\ RepeatsWithinTtl(call) =>
          /\ call.served = "cache"
          /\ call.out = call.prev.out
          /\ api_calls = call.before.api_calls
          /\ failed_calls = call.before.failed_calls

\* C30 witness: AAPL failed and MSFT succeeded, and the repeated call got
\* the rows of MSFT alone from the cache.
C30_Witness ==
    /\ PricesCalled
    /\ PartlySucceeded(call.prev)
    /\ RepeatsWithinTtl(call)
    /\ call.tickers = <<"AAPL", "MSFT">>
    /\ call.served = "cache"
    /\ call.out.val.rows = <<"MSFT">>

ServiceCalled == call.fn = "get_stock_data"

\* The requested tickers that are not the ticker of any row of the table.
WithoutRows(tickers, table) ==
    SelectSeq(tickers, LAMBDA x : x \notin TickerSet(table.rows))

C27_CacheHitFlagAsClaimed ==
    ServiceCalled /\ call.out.val.success =>
        /\ call.out.val.cache_hit
              <=> (call.served = "cache" /\ api_calls = call.before.api_calls)
        /\ call.prev.fn = "none" => ~call.out.val.cache_hit
        /\ (/\ call.prev.fn = "get_stock_data"
            /\ call.prev.out.val.success
            /\ CacheEnabled(call.before)
            /\ call.tickers = call.prev.tickers
            /\ call.time < call.prev.out.val.data.stamp
                   + RequestedTtl(call.before.cache_manager, call.ttl_hours))
              => call.out.val.cache_hit

=============================================================================
